---- MODULE Spec2Model ----
(***************************************************************************)
(* Model of main_script.py: the weather pipeline                           *)
(*   get_weather_data -> launch_container -> db_connect -> create_table    *)
(*   -> load_data -> report (counts, get_dates) -> ask_user / compose down *)
(* The container runtime, the database and the console are the             *)
(* environment: each call into them has its outcome chosen by \E.          *)
(* The database table and the container outlive a run of the script, so    *)
(* the model runs the script several times over the same environment.      *)
(***************************************************************************)
EXTENDS Integers, Sequences, FiniteSets, TLC

VARIABLES
    stage,            \* position of __main__: the call about to be made
    run,              \* which run of the script this is
    error,            \* the exception that ended the run, or "none"
    trace,            \* history: the stages entered in this run, in order
    df,               \* received_daily_dataframe
    retry_count,      \* launch_container's local counter
    pollLog,          \* history: outcome of each docker ps check of this call
    launch_result,    \* launch_container's return value
    descriptor,       \* docker-compose.yml on disk
    containerUp,      \* the container, as the runtime has it
    db,               \* the table daily_weather in the database volume
    before,           \* history: db and container when the run or the
                      \* latest database call started
    create_result,    \* create_table's return value
    row_count,        \* load_data's local row_count
    load_result,      \* load_data's return value
    sunny_count,      \* first count printed by __main__
    warm_count,       \* second count printed by __main__
    formatted_dates,  \* get_dates' return value
    prompted,         \* history: ask_user has read the console
    last_input,       \* history: the latest line read from the console
    answer,           \* ask_user's local answer
    user_answer,      \* ask_user's return value
    down_invoked      \* docker-compose down has been run

vars == <<stage, run, error, trace, df, retry_count, pollLog, launch_result,
          descriptor, containerUp, db, before, create_result, row_count,
          load_result, sunny_count, warm_count, formatted_dates, prompted,
          last_input, answer, user_answer, down_invoked>>

----------------------------------------------------------------------------
(* Bounds of the model *)

MaxRuns == 2
MaxChecks == 4
MaxFetchRows == 2
MaxRows == 4
MaxInputLen == 2

None == "none"

----------------------------------------------------------------------------
(* Dates and the weather table *)

DaysInMonth(y, m) ==
    IF m = 2 THEN (IF y % 4 = 0 /\ (y % 100 # 0 \/ y % 400 = 0) THEN 29 ELSE 28)
    ELSE IF m \in {4, 6, 9, 11} THEN 30 ELSE 31

NextDay(d) ==
    IF d.day < DaysInMonth(d.year, d.month)
        THEN [d EXCEPT !.day = d.day + 1]
    ELSE IF d.month < 12
        THEN [d EXCEPT !.day = 1, !.month = d.month + 1]
    ELSE [year |-> d.year + 1, month |-> 1, day |-> 1]

RECURSIVE DateRange(_, _)
DateRange(start, n) ==
    IF n = 0 THEN <<>> ELSE <<start>> \o DateRange(NextDay(start), n - 1)

\* first timestamp of the response's daily axis
StartDate == [year |-> 2024, month |-> 8, day |-> 30]

\* a dataframe: one row per date of the axis, with the given column values
Table(n, c, t, w) ==
    LET dates == DateRange(StartDate, n)
    IN  [i \in 1..n |-> [date |-> dates[i],
                         weather_code |-> c[i],
                         temperature_2m_max |-> t[i],
                         wind_speed_10m_max |-> w[i]]]

\* what the pipeline's fetch may return
FetchTables ==
    UNION { { Table(n, c, [i \in 1..n |-> 25], [i \in 1..n |-> 5]) :
                c \in [1..n -> {0, 3}] } : n \in 1..MaxFetchRows }

EmptyFrame == <<>>

----------------------------------------------------------------------------
(* get_dates: the pandas calls of lines 296-302 *)

\* the missing value concat puts in a column a frame does not have
NaN == -9999

Col(row, col) ==
    IF col = "temperature_2m_max" THEN row.temperature_2m_max
    ELSE row.wind_speed_10m_max

RemoveAt(rows, i) ==
    [j \in 1..(Len(rows) - 1) |-> IF j < i THEN rows[j] ELSE rows[j + 1]]

\* index of the first row holding the largest value of col; a missing value
\* ranks below every value
FirstArgMax(rows, col) ==
    CHOOSE i \in 1..Len(rows) :
        /\ \A j \in 1..Len(rows) : Col(rows[j], col) <= Col(rows[i], col)
        /\ \A j \in 1..(i - 1) : Col(rows[j], col) < Col(rows[i], col)

\* rows by descending col, ties in their original order, missing values last
RECURSIVE SortDescending(_, _)
SortDescending(rows, col) ==
    IF rows = <<>> THEN <<>>
    ELSE LET i == FirstArgMax(rows, col)
         IN  <<rows[i]>> \o SortDescending(RemoveAt(rows, i), col)

FirstN(rows, n) == SubSeq(rows, 1, IF Len(rows) < n THEN Len(rows) ELSE n)

\* DataFrame.nlargest(n, col), keep='first'
NLargest(n, col, rows) == FirstN(SortDescending(rows, col), n)

\* frame[['date', 'temperature_2m_max']] and frame[['date', 'wind_speed_10m_max']],
\* as concat lays them out: the column a frame lacks holds NaN
TempFrame(rows) ==
    [i \in 1..Len(rows) |-> [date |-> rows[i].date,
                             temperature_2m_max |-> rows[i].temperature_2m_max,
                             wind_speed_10m_max |-> NaN]]

WindFrame(rows) ==
    [i \in 1..Len(rows) |-> [date |-> rows[i].date,
                             temperature_2m_max |-> NaN,
                             wind_speed_10m_max |-> rows[i].wind_speed_10m_max]]

Concat(a, b) == a \o b

\* drop_duplicates(subset='date'): the first row of each date is kept
RECURSIVE DropDuplicates(_)
DropDuplicates(rows) ==
    IF rows = <<>> THEN <<>>
    ELSE LET init == DropDuplicates(SubSeq(rows, 1, Len(rows) - 1))
             last == rows[Len(rows)]
         IN  IF \E j \in 1..Len(init) : init[j].date = last.date
                 THEN init ELSE Append(init, last)

KeepDuplicates(rows) == rows

\* the drop_duplicates call of line 302
Deduplicated(rows) == DropDuplicates(rows)

top_temp_dates(frame) == TempFrame(NLargest(3, "temperature_2m_max", frame))

top_wind_dates(frame) == WindFrame(NLargest(3, "wind_speed_10m_max", frame))

PooledDates(frame) == Concat(top_temp_dates(frame), top_wind_dates(frame))

TopByWind(rows) == NLargest(3, "wind_speed_10m_max", rows)

\* the closing nlargest(3, 'temperature_2m_max') of line 302
FinalSelection(rows) == NLargest(3, "temperature_2m_max", rows)

top_dates(frame) == FinalSelection(Deduplicated(PooledDates(frame)))

months ==
    <<"yanvarya", "fevralya", "marta", "aprelya", "maya", "iyunya", "iyulya",
      "avgusta", "sentyabrya", "oktyabrya", "noyabrya", "dekabrya">>

\* f"{x.day} {months[x.month]} {x.year}"
FormatDate(x) == <<x.day, months[x.month], x.year>>

get_dates(frame) ==
    LET top == top_dates(frame)
    IN  [i \in 1..Len(top) |-> FormatDate(top[i].date)]

\* the two counts of __main__
SunnyDays(frame) ==
    Cardinality({i \in 1..Len(frame) : frame[i].weather_code \in {0, 1}})

WarmDays(frame) ==
    Cardinality({i \in 1..Len(frame) : frame[i].temperature_2m_max >= 20})

----------------------------------------------------------------------------
(* The database table *)

\* the DDL of create_table
FixedSchema ==
    [primary_key |-> "date",
     date |-> "DATE",
     weather_code |-> "INTEGER",
     temperature_2m_max |-> "FLOAT",
     temperature_2m_min |-> "FLOAT",
     apparent_temperature_max |-> "FLOAT",
     apparent_temperature_min |-> "FLOAT",
     wind_speed_10m_max |-> "FLOAT"]

NoSchema ==
    [primary_key |-> "", date |-> "", weather_code |-> "",
     temperature_2m_max |-> "", temperature_2m_min |-> "",
     apparent_temperature_max |-> "", apparent_temperature_min |-> "",
     wind_speed_10m_max |-> ""]

NoTable == [exists |-> FALSE, schema |-> NoSchema, rows |-> <<>>]

\* the dtypes of the dataframe get_weather_data builds: a UTC date_range and
\* the float32 arrays of ValuesAsNumpy
FrameDtypes ==
    [date |-> "datetime64[ns, UTC]",
     weather_code |-> "float32",
     temperature_2m_max |-> "float32",
     temperature_2m_min |-> "float32",
     apparent_temperature_max |-> "float32",
     apparent_temperature_min |-> "float32",
     wind_speed_10m_max |-> "float32"]

\* the column type to_sql gives a dtype
SqlType(dtype) ==
    IF dtype = "datetime64[ns, UTC]" THEN "TIMESTAMP WITH TIME ZONE"
    ELSE IF dtype = "float32" THEN "FLOAT(23)"
    ELSE IF dtype = "float64" THEN "FLOAT(53)"
    ELSE "TEXT"

\* the table to_sql creates: the frame's columns, no key (index=False)
InferredSchema ==
    [primary_key |-> "none",
     date |-> SqlType(FrameDtypes.date),
     weather_code |-> SqlType(FrameDtypes.weather_code),
     temperature_2m_max |-> SqlType(FrameDtypes.temperature_2m_max),
     temperature_2m_min |-> SqlType(FrameDtypes.temperature_2m_min),
     apparent_temperature_max |-> SqlType(FrameDtypes.apparent_temperature_max),
     apparent_temperature_min |-> SqlType(FrameDtypes.apparent_temperature_min),
     wind_speed_10m_max |-> SqlType(FrameDtypes.wind_speed_10m_max)]

CreateOrReplace(t) == [exists |-> TRUE, schema |-> FixedSchema, rows |-> <<>>]

\* CREATE TABLE IF NOT EXISTS
CreateIfNotExists(t) ==
    IF t.exists THEN t
    ELSE [exists |-> TRUE, schema |-> FixedSchema, rows |-> <<>>]

\* to_sql(..., if_exists='replace', index=False) with k rows persisted:
\* the table is dropped and made again from the frame
ToSqlReplace(t, frame, k) ==
    [exists |-> TRUE, schema |-> InferredSchema, rows |-> SubSeq(frame, 1, k)]

\* SELECT COUNT(*)
CountRows(t) == Len(t.rows)

\* row_count before the count query has run
NotCounted == -1

CountsAtMost(count, frame) == count <= Len(frame)

\* the comparison of line 246, negated
CountsMatch(count, frame) == count = Len(frame)

RolledBack(old, new) == old

\* the table a failed integrity check leaves: the raise of line 247 undoes
\* nothing
AfterIntegrityFailure(old, new) == new

----------------------------------------------------------------------------
(* The console *)

Chars == {"y", "Y", "n", " ", "x"}

ConsoleInputs == UNION { [1..n -> Chars] : n \in 0..MaxInputLen }

IsSpace(c) == c = " "

RECURSIVE LStrip(_)
LStrip(s) ==
    IF s # <<>> /\ IsSpace(s[1]) THEN LStrip(SubSeq(s, 2, Len(s))) ELSE s

RECURSIVE RStrip(_)
RStrip(s) ==
    IF s # <<>> /\ IsSpace(s[Len(s)]) THEN RStrip(SubSeq(s, 1, Len(s) - 1)) ELSE s

\* str.strip()
Strip(s) == RStrip(LStrip(s))

LowerChar(c) == IF c = "Y" THEN "y" ELSE IF c = "N" THEN "n" ELSE c

\* str.lower()
Lower(s) == [i \in 1..Len(s) |-> LowerChar(s[i])]

NormalizeNoStrip(line) == Lower(line)

\* input(...).strip().lower()
Normalize(line) == Lower(Strip(line))

\* answer in ('y', 'n')
Accepted(a) == a \in {<<"y">>, <<"n">>}

NoAnswer == <<>>

----------------------------------------------------------------------------
(* __main__ and the functions it calls *)

Snapshot == [db |-> db, containerUp |-> containerUp]

StageAfterSwapped(s) ==
    CASE s = "fetch" -> "launch"
      [] s = "launch" -> "connect"
      [] s = "connect" -> "load"
      [] s = "load" -> "create_table"
      [] s = "create_table" -> "report"
      [] s = "report" -> "teardown"
      [] OTHER -> "done"

\* the order of the calls in __main__
StageAfter(s) ==
    CASE s = "fetch" -> "launch"
      [] s = "launch" -> "connect"
      [] s = "connect" -> "create_table"
      [] s = "create_table" -> "load"
      [] s = "load" -> "report"
      [] s = "report" -> "teardown"
      [] OTHER -> "done"

LoopGuardOffByOne(count) == count <= 3

\* while retry_count <= 2
LoopGuard(count) == count <= 2

Init ==
    /\ stage = "fetch"
    /\ run = 1
    /\ error = None
    /\ trace = <<>>
    /\ df = EmptyFrame
    /\ retry_count = 0
    /\ pollLog = <<>>
    /\ launch_result = None
    /\ descriptor = "absent"
    /\ containerUp = FALSE
    /\ db = NoTable
    /\ before = [db |-> NoTable, containerUp |-> FALSE]
    /\ create_result = None
    /\ row_count = NotCounted
    /\ load_result = None
    /\ sunny_count = NotCounted
    /\ warm_count = NotCounted
    /\ formatted_dates = <<>>
    /\ prompted = FALSE
    /\ last_input = <<>>
    /\ answer = NoAnswer
    /\ user_answer = NoAnswer
    /\ down_invoked = FALSE

\* an unhandled exception ends the process
Abort(exc) ==
    /\ error' = exc
    /\ stage' = "aborted"

\* received_daily_dataframe = get_weather_data(MONTHS)
GetWeatherData ==
    /\ stage = "fetch"
    /\ trace' = Append(trace, "fetch")
    /\ \/ /\ \E table \in FetchTables : df' = table
          /\ stage' = StageAfter("fetch")
          /\ UNCHANGED error
       \/ /\ Abort("RequestException")
          /\ UNCHANGED df
    /\ UNCHANGED <<run, retry_count, pollLog, launch_result, descriptor,
                   containerUp, db, before, create_result, row_count,
                   load_result, sunny_count, warm_count, formatted_dates,
                   prompted, last_input, answer, user_answer, down_invoked>>

\* launch_container up to the sleep: the descriptor is written, then
\* docker-compose up -d
LaunchUp ==
    /\ stage = "launch"
    /\ trace' = Append(trace, "launch")
    /\ descriptor' = "written"
    /\ retry_count' = 0
    /\ \/ /\ containerUp' = TRUE
          /\ stage' = "poll"
          /\ UNCHANGED error
       \/ /\ Abort("CalledProcessError")
          /\ UNCHANGED containerUp
    /\ UNCHANGED <<run, df, pollLog, launch_result, db, before, create_result,
                   row_count, load_result, sunny_count, warm_count,
                   formatted_dates, prompted, last_input, answer, user_answer,
                   down_invoked>>

\* one turn of the while loop of launch_container: a docker ps, and what
\* follows its outcome
StatusCheck ==
    /\ stage = "poll"
    /\ LoopGuard(retry_count)
    /\ \/ /\ pollLog' = Append(pollLog, "found")
          /\ launch_result' = "Success"
          /\ stage' = StageAfter("launch")
          /\ UNCHANGED <<retry_count, error>>
       \/ /\ pollLog' = Append(pollLog, "absent")
          /\ retry_count' = retry_count + 1
          /\ IF LoopGuard(retry_count + 1)
                THEN UNCHANGED <<stage, error>>
                ELSE Abort("RuntimeError")
          /\ UNCHANGED launch_result
       \/ /\ Len(pollLog) < MaxChecks
          /\ pollLog' = Append(pollLog, "error")
          /\ UNCHANGED <<retry_count, launch_result, stage, error>>
    /\ UNCHANGED <<run, trace, df, descriptor, containerUp, db, before,
                   create_result, row_count, load_result, sunny_count,
                   warm_count, formatted_dates, prompted, last_input, answer,
                   user_answer, down_invoked>>

\* db_engine = db_connect(...): create_engine opens no connection. The frame
\* of launch_container, kept until here for inspection, is gone.
DbConnect ==
    /\ stage = "connect"
    /\ trace' = Append(trace, "connect")
    /\ stage' = StageAfter("connect")
    /\ retry_count' = 0
    /\ pollLog' = <<>>
    /\ UNCHANGED <<run, error, df, launch_result,
                   descriptor, containerUp, db, before, create_result,
                   row_count, load_result, sunny_count, warm_count,
                   formatted_dates, prompted, last_input, answer, user_answer,
                   down_invoked>>

\* create_table: the DDL (its failure is printed and swallowed), then the
\* catalog query on a second connection
CreateTable ==
    /\ stage = "create_table"
    /\ trace' = Append(trace, "create_table")
    /\ before' = Snapshot
    /\ \E ddl_ok \in BOOLEAN, catalog_ok \in BOOLEAN :
          /\ db' = IF ddl_ok THEN CreateIfNotExists(db) ELSE db
          /\ IF ~catalog_ok
                THEN Abort("OperationalError") /\ UNCHANGED create_result
             ELSE IF ~db'.exists
                THEN Abort("RuntimeError") /\ UNCHANGED create_result
             ELSE /\ create_result' = "Success"
                  /\ stage' = StageAfter("create_table")
                  /\ UNCHANGED error
    /\ UNCHANGED <<run, df, retry_count, pollLog, launch_result, descriptor,
                   containerUp, row_count, load_result, sunny_count,
                   warm_count, formatted_dates, prompted, last_input, answer,
                   user_answer, down_invoked>>

\* load_data: to_sql, the count query, the comparison
LoadData ==
    /\ stage = "load"
    /\ trace' = Append(trace, "load")
    /\ before' = Snapshot
    /\ \/ \* to_sql raises; the drop may or may not have been carried out
          /\ db' \in {db, NoTable}
          /\ Abort("OperationalError")
          /\ UNCHANGED <<row_count, load_result>>
       \/ \* to_sql returns; the count query raises
          /\ \E k \in 0..Len(df) : db' = ToSqlReplace(db, df, k)
          /\ Abort("OperationalError")
          /\ UNCHANGED <<row_count, load_result>>
       \/ \* to_sql returns; the count is compared
          \E k \in 0..Len(df) :
             LET written == ToSqlReplace(db, df, k)
             IN  /\ row_count' = CountRows(written)
                 /\ IF CountsMatch(row_count', df)
                       THEN /\ db' = written
                            /\ load_result' = "Success"
                            /\ stage' = StageAfter("load")
                            /\ UNCHANGED error
                       ELSE /\ db' = AfterIntegrityFailure(db, written)
                            /\ Abort("ValueError")
                            /\ UNCHANGED load_result
    /\ UNCHANGED <<run, df, retry_count, pollLog, launch_result, descriptor,
                   containerUp, create_result, sunny_count, warm_count,
                   formatted_dates, prompted, last_input, answer, user_answer,
                   down_invoked>>

\* the two counts and get_dates
Report ==
    /\ stage = "report"
    /\ trace' = Append(trace, "report")
    /\ sunny_count' = SunnyDays(df)
    /\ warm_count' = WarmDays(df)
    /\ formatted_dates' = get_dates(df)
    /\ stage' = StageAfter("report")
    /\ UNCHANGED <<run, error, df, retry_count, pollLog, launch_result,
                   descriptor, containerUp, db, before, create_result,
                   row_count, load_result, prompted, last_input, answer,
                   user_answer, down_invoked>>

\* one turn of the while loop of ask_user
AskUser ==
    /\ stage = "teardown"
    /\ user_answer = NoAnswer
    /\ trace' = IF prompted THEN trace ELSE Append(trace, "teardown")
    /\ prompted' = TRUE
    /\ \/ \E line \in ConsoleInputs :
             /\ last_input' = line
             /\ answer' = Normalize(line)
             /\ user_answer' = IF Accepted(answer') THEN answer' ELSE NoAnswer
             /\ UNCHANGED <<stage, error>>
       \/ \* the console is closed
          /\ Abort("EOFError")
          /\ UNCHANGED <<last_input, answer, user_answer>>
    /\ UNCHANGED <<run, df, retry_count, pollLog, launch_result, descriptor,
                   containerUp, db, before, create_result, row_count,
                   load_result, sunny_count, warm_count, formatted_dates,
                   down_invoked>>

\* if user_answer == 'y': docker-compose down
Teardown ==
    /\ stage = "teardown"
    /\ user_answer # NoAnswer
    /\ IF user_answer = <<"y">>
          THEN /\ down_invoked' = TRUE
               /\ \/ /\ containerUp' = FALSE
                     /\ stage' = StageAfter("teardown")
                     /\ UNCHANGED error
                  \/ /\ Abort("CalledProcessError")
                     /\ UNCHANGED containerUp
          ELSE /\ stage' = StageAfter("teardown")
               /\ UNCHANGED <<down_invoked, containerUp, error>>
    /\ UNCHANGED <<run, trace, df, retry_count, pollLog, launch_result,
                   descriptor, db, before, create_result, row_count,
                   load_result, sunny_count, warm_count, formatted_dates,
                   prompted, last_input, answer, user_answer>>

\* the script is run again: the process state is new, the descriptor, the
\* container and the database volume are as the last run left them
StartRun ==
    /\ stage \in {"done", "aborted"}
    /\ run < MaxRuns
    /\ run' = run + 1
    /\ stage' = "fetch"
    /\ error' = None
    /\ trace' = <<>>
    /\ df' = EmptyFrame
    /\ retry_count' = 0
    /\ pollLog' = <<>>
    /\ launch_result' = None
    /\ before' = Snapshot
    /\ create_result' = None
    /\ row_count' = NotCounted
    /\ load_result' = None
    /\ sunny_count' = NotCounted
    /\ warm_count' = NotCounted
    /\ formatted_dates' = <<>>
    /\ prompted' = FALSE
    /\ last_input' = <<>>
    /\ answer' = NoAnswer
    /\ user_answer' = NoAnswer
    /\ down_invoked' = FALSE
    /\ UNCHANGED <<descriptor, containerUp, db>>

Next ==
    \/ GetWeatherData
    \/ LaunchUp
    \/ StatusCheck
    \/ DbConnect
    \/ CreateTable
    \/ LoadData
    \/ Report
    \/ AskUser
    \/ Teardown
    \/ StartRun

Spec == Init /\ [][Next]_vars

----------------------------------------------------------------------------
(* get_dates on its own: every table up to MaxRows rows, in the state a    *)
(* first run is in when load_data has returned                             *)

ReportTemperatures == {20, 25, 30}

ReportWinds == {2, 5, 40}

InitDates ==
    /\ stage = "report"
    /\ run = 1
    /\ error = None
    /\ trace = <<"fetch", "launch", "connect", "create_table", "load">>
    /\ \E n \in 0..MaxRows :
          \E t \in [1..n -> ReportTemperatures], w \in [1..n -> ReportWinds] :
             df = Table(n, [i \in 1..n |-> 0], t, w)
    /\ retry_count = 0
    /\ pollLog = <<>>
    /\ launch_result = "Success"
    /\ descriptor = "written"
    /\ containerUp = TRUE
    /\ db = ToSqlReplace(NoTable, df, Len(df))
    /\ before = [db |-> CreateIfNotExists(NoTable), containerUp |-> TRUE]
    /\ create_result = "Success"
    /\ row_count = Len(df)
    /\ load_result = "Success"
    /\ sunny_count = NotCounted
    /\ warm_count = NotCounted
    /\ formatted_dates = <<>>
    /\ prompted = FALSE
    /\ last_input = <<>>
    /\ answer = NoAnswer
    /\ user_answer = NoAnswer
    /\ down_invoked = FALSE

NextDates == Report

SpecDates == InitDates /\ [][NextDates]_vars

----------------------------------------------------------------------------
(* Properties of get_dates *)

InTrace(s) == \E i \in 1..Len(trace) : trace[i] = s

Reported == InTrace("report")

\* the number of rows that come before row i when the rows are ranked by a
\* column, larger first, earlier row first among equals
TempRank(i) ==
    Cardinality({j \in 1..Len(df) :
        \/ df[j].temperature_2m_max > df[i].temperature_2m_max
        \/ df[j].temperature_2m_max = df[i].temperature_2m_max /\ j < i})

WindRank(i) ==
    Cardinality({j \in 1..Len(df) :
        \/ df[j].wind_speed_10m_max > df[i].wind_speed_10m_max
        \/ df[j].wind_speed_10m_max = df[i].wind_speed_10m_max /\ j < i})

InPool(i) == TempRank(i) < 3 \/ WindRank(i) < 3

IsReported(i) ==
    \E k \in 1..Len(formatted_dates) : formatted_dates[k] = FormatDate(df[i].date)

\* the row of the table a reported date belongs to
RowOf(k) ==
    CHOOSE i \in 1..Len(df) : FormatDate(df[i].date) = formatted_dates[k]

Min(a, b) == IF a < b THEN a ELSE b

ExampleTable ==
    LET d == DateRange(StartDate, 3)
    IN  <<[date |-> d[1], weather_code |-> 0,
           temperature_2m_max |-> 30, wind_speed_10m_max |-> 5],
          [date |-> d[2], weather_code |-> 0,
           temperature_2m_max |-> 25, wind_speed_10m_max |-> 40],
          [date |-> d[3], weather_code |-> 0,
           temperature_2m_max |-> 20, wind_speed_10m_max |-> 2]>>

\* C9: get_dates reports dates of the pool (top 3 by temperature together
\* with top 3 by wind), each date once, the 3 of the pool with the highest
\* temperature_2m_max (all of the pool when it has fewer), by descending
\* temperature; for the table d1 (30, 5), d2 (25, 40), d3 (20, 2) it reports
\* d1, d2, d3.
C9_PooledTopThreeByTemperature ==
    Reported =>
        /\ \A k \in 1..Len(formatted_dates) :
              \E i \in 1..Len(df) :
                 InPool(i) /\ FormatDate(df[i].date) = formatted_dates[k]
        /\ \A k, l \in 1..Len(formatted_dates) :
              k # l => formatted_dates[k] # formatted_dates[l]
        /\ Len(formatted_dates)
              = Min(3, Cardinality({i \in 1..Len(df) : InPool(i)}))
        /\ \A k \in 1..(Len(formatted_dates) - 1) :
              df[RowOf(k)].temperature_2m_max
                 >= df[RowOf(k + 1)].temperature_2m_max
        /\ \A i \in 1..Len(df) :
              InPool(i) /\ ~IsReported(i) =>
                 \A k \in 1..Len(formatted_dates) :
                    df[RowOf(k)].temperature_2m_max
                       >= df[i].temperature_2m_max
        /\ df = ExampleTable =>
              formatted_dates = <<FormatDate(ExampleTable[1].date),
                                  FormatDate(ExampleTable[2].date),
                                  FormatDate(ExampleTable[3].date)>>

\* the example table has been reported; all its dates are in both top-3 lists
C9_Witness ==
    /\ Reported
    /\ df = ExampleTable
    /\ Len(formatted_dates) = 3
    /\ \A i \in 1..3 : TempRank(i) < 3 /\ WindRank(i) < 3

\* C10: the dates get_dates reports are the min(3, rows) dates ranked first
\* by temperature_2m_max, in that order, whatever the wind column holds: a
\* date that is only in the wind top 3 is not reported.
C10_WindColumnIrrelevant ==
    Reported =>
        /\ Len(formatted_dates) = Min(3, Len(df))
        /\ \A i \in 1..Len(df) :
              IF TempRank(i) < 3
                 THEN formatted_dates[TempRank(i) + 1] = FormatDate(df[i].date)
                 ELSE ~IsReported(i)

\* a reported table in which some date is in the wind top 3 only
C10_Witness ==
    /\ Reported
    /\ Len(formatted_dates) = 3
    /\ \E i \in 1..Len(df) : WindRank(i) < 3 /\ TempRank(i) >= 3 /\ ~IsReported(i)

----------------------------------------------------------------------------
(* Properties of the pipeline *)

StageOrder ==
    <<"fetch", "launch", "connect", "create_table", "load", "report", "teardown">>

LastStage == IF trace = <<>> THEN None ELSE trace[Len(trace)]

AllAbsent == pollLog # <<>> /\ \A i \in 1..Len(pollLog) : pollLog[i] = "absent"

\* C1: when check 1 reports the container absent and check 2 reports it,
\* launch_container has returned "Success" after these 2 checks and makes no
\* 3rd; when every check reports it absent there are never more than 3
\* checks, and the RuntimeError is raised exactly when the 3rd has been made.
C1_PollStopsAtFirstMatch ==
    /\ (Len(pollLog) >= 2 /\ pollLog[1] = "absent" /\ pollLog[2] = "found") =>
          /\ Len(pollLog) = 2
          /\ launch_result = "Success"
          /\ stage = "connect"
          /\ error = None
    /\ AllAbsent =>
          /\ Len(pollLog) <= 3
          /\ Len(pollLog) = 3 <=> (stage = "aborted" /\ error = "RuntimeError")
          /\ Len(pollLog) < 3 => (stage = "poll" /\ error = None)

\* the container was reported on check 2, after one "absent"
C1_Witness ==
    /\ pollLog = <<"absent", "found">>
    /\ launch_result = "Success"
    /\ retry_count = 1

\* C2: whatever the outcomes of the checks, invocation errors included,
\* launch_container makes at most 3 checks.
C2_ErrorsConsumeRetries == Len(pollLog) <= 3

\* C3: load_data has returned "Success" only with the counted rows, which
\* are the rows the table holds, equal in number to the rows of the
\* dataframe; whenever the count differs, the run has ended with ValueError
\* and load_data has not returned "Success".
C3_SuccessOnlyOnMatchingCount ==
    /\ load_result = "Success" =>
          /\ row_count = Len(df)
          /\ db.exists
          /\ CountRows(db) = Len(df)
    /\ (row_count # NotCounted /\ row_count # Len(df)) =>
          /\ error = "ValueError"
          /\ stage = "aborted"
          /\ load_result # "Success"

\* fewer rows were persisted than the dataframe has, and load_data raised
C3_Witness ==
    /\ LastStage = "load"
    /\ row_count # NotCounted
    /\ row_count < Len(df)
    /\ CountRows(db) = row_count
    /\ error = "ValueError"

\* C4: once create_table and load_data have both returned "Success", the
\* table has the schema of create_table's DDL, date being the primary key.
C4_SchemaPreservedByLoad ==
    (create_result = "Success" /\ load_result = "Success") =>
        /\ db.exists
        /\ db.schema = FixedSchema
        /\ db.schema.primary_key = "date"

IntegrityFailureState ==
    error = "ValueError" =>
        /\ db.exists
        /\ row_count < Len(df)
        /\ db.rows = SubSeq(df, 1, row_count)
        /\ db.schema = InferredSchema

\* C5: after load_data has raised ValueError the table holds the rows the
\* replace wrote, fewer than the dataframe's, in the table to_sql made; what
\* the table held before is not put back, and the step that follows the
\* failure leaves the table as it is.
C5_NoRollbackAfterIntegrityFailure ==
    /\ []IntegrityFailureState
    /\ [][error = "ValueError" => db' = db]_vars

\* the table held other rows before the failed load
C5_Witness ==
    /\ error = "ValueError"
    /\ before.db.exists
    /\ Len(before.db.rows) > 0
    /\ before.db.rows # db.rows

\* C6: when create_table has just run: it returned "Success" only with the
\* table in the catalog; with the catalog query answered and the table
\* absent it raised RuntimeError; a table that existed before the call has
\* kept its schema and rows; a table the call made has the fixed schema.
C6_CreateTableIdempotentSelfVerifying ==
    LastStage = "create_table" =>
        /\ create_result = "Success" => db.exists
        /\ (error # "OperationalError" /\ ~db.exists) =>
              /\ error = "RuntimeError"
              /\ create_result # "Success"
        /\ error = "RuntimeError" => ~db.exists
        /\ before.db.exists => db = before.db
        /\ (~before.db.exists /\ db.exists) =>
              /\ db.schema = FixedSchema
              /\ db.rows = <<>>

\* a second call of create_table in sequence, on the table the first one made
C6_Witness ==
    /\ LastStage = "create_table"
    /\ run >= 2
    /\ create_result = "Success"
    /\ before.db.exists
    /\ before.db.schema = FixedSchema
    /\ db = before.db

\* a line that is y or Y (n or N) with nothing but blanks around it
IsYesLine(line) ==
    \E i \in 1..Len(line) :
        /\ line[i] \in {"y", "Y"}
        /\ \A j \in 1..Len(line) : j # i => line[j] = " "

IsNoLine(line) ==
    \E i \in 1..Len(line) :
        /\ line[i] \in {"n", "N"}
        /\ \A j \in 1..Len(line) : j # i => line[j] = " "

\* C7: ask_user has returned nothing as long as the line read last is not a
\* y or n (in either case, blanks around it); what it returns is the y or n
\* of the line read last; docker-compose down is run if and only if it
\* returned y, and after n the container is still up.
C7_AskUserAndTeardown ==
    /\ (prompted /\ user_answer = NoAnswer) =>
          ~IsYesLine(last_input) /\ ~IsNoLine(last_input)
    /\ user_answer # NoAnswer =>
          \/ IsYesLine(last_input) /\ user_answer = <<"y">>
          \/ IsNoLine(last_input) /\ user_answer = <<"n">>
    /\ down_invoked => user_answer = <<"y">>
    /\ (stage \in {"done", "aborted"} /\ user_answer = <<"y">>) => down_invoked
    /\ (stage = "done" /\ user_answer = <<"n">>) => containerUp /\ ~down_invoked

\* " Y" was read, y returned and docker-compose down run
C7_Witness ==
    /\ last_input = <<" ", "Y">>
    /\ user_answer = <<"y">>
    /\ down_invoked
    /\ stage = "done"

StagesInOrder ==
    /\ Len(trace) <= Len(StageOrder)
    /\ \A i \in 1..Len(trace) : trace[i] = StageOrder[i]
    /\ error # None <=> stage = "aborted"
    /\ stage \in {"fetch", "launch", "connect", "create_table", "load", "report"} =>
          stage = StageOrder[Len(trace) + 1]

AbortLeavesThingsAsTheyAre ==
    /\ (error # None /\ LastStage = "fetch") =>
          /\ db = before.db
          /\ containerUp = before.containerUp
          /\ df = EmptyFrame
          /\ launch_result = None
    /\ (error # None /\ LastStage \in {"connect", "create_table", "load", "report"}) =>
          /\ launch_result = "Success"
          /\ containerUp
          /\ ~prompted
          /\ user_answer = NoAnswer
          /\ ~down_invoked

\* C8: the stages of a run are entered in the order fetch, launch, connect,
\* create_table, load, report, teardown; an exception leaves the run
\* aborted at the stage that raised it; after a failed fetch the table and
\* the container are as the run found them; after a failure that follows a
\* successful launch the container is up, no prompt has been read and
\* docker-compose down has not been run; nothing follows an aborted run but
\* a new run, which finds the table, the container and the descriptor as
\* the abort left them.
C8_StagesInOrderAbortIsFinal ==
    /\ []StagesInOrder
    /\ []AbortLeavesThingsAsTheyAre
    /\ [][stage = "aborted" =>
            /\ stage' = "fetch"
            /\ run' = run + 1
            /\ db' = db
            /\ containerUp' = containerUp
            /\ descriptor' = descriptor]_vars

\* load_data failed after a successful launch: the container is up and the
\* prompt was never read
C8_Witness ==
    /\ stage = "aborted"
    /\ LastStage = "load"
    /\ launch_result = "Success"
    /\ containerUp
    /\ ~prompted

====
